---- MODULE Spec2Model ----
(***************************************************************************)
(* State-machine model of src/app.py: the TranslationBot request handlers  *)
(* (handle_audio, handle_video), the lazily loaded shared model            *)
(* (load_model), the shared pipeline (process_audio), the worker pool      *)
(* (ThreadPoolExecutor) and the global error_handler.                      *)
(*                                                                         *)
(* All handlers run on one asyncio event loop, so the code between two     *)
(* awaits of a handler is one atomic action here: every action below is    *)
(* "the awaited call returned (or raised), the handler runs on to its next *)
(* await".  Work handed to run_in_executor runs on the worker pool         *)
(* (WorkerStart / WorkerFinish) concurrently with the loop.                *)
(*                                                                         *)
(* Line 64 of src/app.py lacks the parenthesis that closes                 *)
(* run_in_executor( ; the model reads the statement as the call it is      *)
(* evidently meant to be, run_in_executor(executor, lambda: list(...)).    *)
(***************************************************************************)
EXTENDS Integers, Sequences, FiniteSets, TLC

(* ----------------------------- bounds -------------------------------- *)
NumRequests == 2
MaxSegments == 3
NumPoolRequests == 5

(* ------------------------ program constants -------------------------- *)
\* Faulty variant of max_workers: the pool is created one worker larger.
max_workers_Five == 4 + 1

\* ThreadPoolExecutor(max_workers=4) (line 25).
max_workers == 4

AckText(k)   == IF k = "audio" THEN "Processing audio..." ELSE "Processing video..."
\* Faulty variant of ErrorText: handle_video carries the audio text.
ErrorText_AudioOnly(k) == "Error processing audio. Please try again."

ErrorText(k) == IF k = "audio" THEN "Error processing audio. Please try again."
                               ELSE "Error processing video. Please try again."
WarningText  == "An error occurred. Please try again later."

Req   == 1..NumRequests
Kinds == {"audio", "video"}

(* What faster_whisper can recognise in a request's audio (the texts of   *)
(* the segments, in order) and what the translator can answer.            *)
Transcriptions == {<<>>, <<"salom", "dunyo">>}
Translations   == {"", "hello world"}

VARIABLES
  kind,            \* media kind of each request ("none" before it arrives)
  pc,              \* the await each handler is suspended at
  model,           \* self.model
  model_loaded,    \* self.model_loaded
  model_lock,      \* self.model_lock is held
  constructCalls,  \* WhisperModel(...) calls made by each request
  built,           \* WhisperModel(...) calls that returned a model
  queue,           \* executor: submitted tasks not yet started (FIFO)
  running,         \* executor: tasks executing on a worker thread
  task,            \* the work each request last handed to the executor
  future,          \* state of the future the request awaits
  files,           \* temporary files present on disk, <<request, name>>
  chat,            \* chat API calls of each request, in order, with outcome
  hist,            \* operations each request has started, in order
  ranOn,           \* <<work, thread>>: which thread executed which work
  failed,          \* the pipeline stage whose exception the handler caught
  caught,          \* times the handler's except clause was entered
  exc,             \* origin of the exception propagating out of the handler
  segments,        \* texts of the recognised segments
  text,            \* the transcript joined from them
  translated_text, \* the translation
  muxStatus,       \* exit status os.system returned (-1: not run)
  segs,            \* input of the transcript assembly checked on its own
  joined,          \* its output, once it ran
  errors           \* error_handler invocations checked on their own, in order

modelVars == <<model, model_loaded, model_lock, constructCalls, built>>
poolVars  == <<queue, running, task, future>>
dataVars  == <<segments, text, translated_text, muxStatus>>
joinVars  == <<segs, joined, errors>>
vars == <<kind, pc, model, model_loaded, model_lock, constructCalls, built,
          queue, running, task, future, files, chat, hist, ranOn, failed,
          caught, exc, segments, text, translated_text, muxStatus,
          segs, joined, errors>>

(* ------------------------- pure functions ---------------------------- *)

\* Faulty variant of join: the separator follows every text, the last too.
RECURSIVE join_Trailing(_, _)
join_Trailing(sep, texts) ==
  IF Len(texts) = 0 THEN ""
  ELSE texts[1] \o sep \o join_Trailing(sep, Tail(texts))

\* " ".join(texts) (line 66): str.join puts the separator between
\* consecutive items and nowhere else.
RECURSIVE join(_, _)
join(sep, texts) ==
  IF Len(texts) = 0 THEN ""
  ELSE IF Len(texts) = 1 THEN texts[1]
  ELSE texts[1] \o sep \o join(sep, Tail(texts))

(* ----------------------------- helpers ------------------------------ *)

\* One chat API call of request r and whether it returned (ok) or raised.
Call(r, op, arg, ok) ==
  chat' = [chat EXCEPT ![r] = Append(@, [op |-> op, arg |-> arg, ok |-> ok])]

\* The operations request r starts in this step, in order.
Log(r, ops) == hist' = [hist EXCEPT ![r] = @ \o ops]

\* loop.run_in_executor(self.executor, work): the task joins the pool's
\* queue and the handler awaits its future.
Submit(r, work) ==
  /\ queue'  = Append(queue, r)
  /\ task'   = [task EXCEPT ![r] = work]
  /\ future' = [future EXCEPT ![r] = "pending"]
  /\ UNCHANGED running

\* The awaited future of r is done; the handler takes its result.
Done(r) == future[r] \in {"ok", "raised"}
Taken(r) == /\ future' = [future EXCEPT ![r] = "none"]
            /\ UNCHANGED <<queue, running, task>>

\* Leaving the handler's "with tempfile.NamedTemporaryFile(...)" blocks
\* (default delete=True) removes every file they created; wav_file was
\* created with delete=False and is not theirs.
with_exit(r, fs) == {f \in fs : f[1] # r \/ f[2] = "wav_file"}

\* Faulty variant of process_audio_finally: wav_file is never unlinked.
process_audio_finally_Keep(r, fs) == fs

\* finally of process_audio (lines 74-76): unlink wav_file if it exists.
process_audio_finally(r, fs) == fs \ {<<r, "wav_file">>}

\* The handler goes on to its next await.
Goto(r, loc, fs) ==
  /\ pc' = [pc EXCEPT ![r] = loc]
  /\ files' = fs
  /\ UNCHANGED <<failed, caught, exc>>

\* Faulty variant of Except: the except clause does not match the exception,
\* which goes through the finally clause and leaves the handler.
Except_Uncaught(r, stage, fs) ==
  /\ pc' = [pc EXCEPT ![r] = "delete"]
  /\ files' = with_exit(r, fs)
  /\ exc' = [exc EXCEPT ![r] = stage]
  /\ UNCHANGED <<failed, caught>>

\* A stage raised inside the try: the with blocks are left, the except
\* clause (lines 105-107 / 156-158) logs and calls reply_text(error text).
Except(r, stage, fs) ==
  /\ pc' = [pc EXCEPT ![r] = "error_reply"]
  /\ files' = with_exit(r, fs)
  /\ failed' = [failed EXCEPT ![r] = stage]
  /\ caught' = [caught EXCEPT ![r] = @ + 1]
  /\ UNCHANGED exc

\* An exception leaves the handler: the application passes it to
\* error_handler (lines 170-174), which logs it and, the update having a
\* message, calls reply_text(warning).
Escape(r, origin) ==
  /\ pc' = [pc EXCEPT ![r] = "warning"]
  /\ exc' = [exc EXCEPT ![r] = origin]
  /\ UNCHANGED <<files, failed, caught>>

(* ---------------------------- load_model ----------------------------- *)

\* Faulty variant of load_model: the tests of lines 31 and 35 are missing,
\* every call constructs and assigns the model again.
load_model_Reload(r, ctor_ok) ==
  /\ ~model_lock
  /\ constructCalls' = [constructCalls EXCEPT ![r] = @ + 1]
  /\ IF ctor_ok
     THEN /\ model' = "WhisperModel"
          /\ model_loaded' = TRUE
          /\ built' = built + 1
     ELSE UNCHANGED <<model, model_loaded, built>>
  /\ model_lock' = FALSE

\* Faulty variant of load_model: a construction that raises leaves the lock
\* held, so the next caller is suspended at line 34.
load_model_KeepLock(r, ctor_ok) ==
  IF model_loaded
  THEN UNCHANGED modelVars
  ELSE /\ ~model_lock
       /\ constructCalls' = [constructCalls EXCEPT ![r] = @ + 1]
       /\ IF ctor_ok
          THEN /\ model' = "WhisperModel"
               /\ model_loaded' = TRUE
               /\ built' = built + 1
          ELSE UNCHANGED <<model, model_loaded, built>>
       /\ model_lock' = ~ctor_ok

\* Faulty variant of load_model: line 44 is missing, the flag is never set.
load_model_NoFlag(r, ctor_ok) ==
  IF model_loaded
  THEN UNCHANGED modelVars
  ELSE /\ ~model_lock
       /\ constructCalls' = [constructCalls EXCEPT ![r] = @ + 1]
       /\ IF ctor_ok
          THEN /\ model' = "WhisperModel"
               /\ built' = built + 1
          ELSE UNCHANGED <<model, built>>
       /\ UNCHANGED model_loaded
       /\ model_lock' = FALSE

\* Faulty variant of load_model: the flag is set before the construction,
\* so a construction that raises leaves it set.
load_model_FlagFirst(r, ctor_ok) ==
  IF model_loaded
  THEN UNCHANGED modelVars
  ELSE /\ ~model_lock
       /\ constructCalls' = [constructCalls EXCEPT ![r] = @ + 1]
       /\ model_loaded' = TRUE
       /\ IF ctor_ok
          THEN /\ model' = "WhisperModel"
               /\ built' = built + 1
          ELSE UNCHANGED <<model, built>>
       /\ model_lock' = FALSE

\* load_model (lines 29-48) as called by request r; ctor_ok: WhisperModel(...)
\* returns a model (TRUE) or raises (FALSE).  Nothing awaits between taking
\* the lock and leaving it, so the re-check of line 35 reads what line 31
\* read.  A held lock keeps the caller waiting (the step is not enabled).
load_model(r, ctor_ok) ==
  IF model_loaded
  THEN UNCHANGED modelVars
  ELSE /\ ~model_lock
       /\ constructCalls' = [constructCalls EXCEPT ![r] = @ + 1]
       /\ IF ctor_ok
          THEN /\ model' = "WhisperModel"
               /\ model_loaded' = TRUE
               /\ built' = built + 1
          ELSE UNCHANGED <<model, model_loaded, built>>
       /\ model_lock' = FALSE

\* The call raises exactly when it constructs and the construction raises.
load_model_raises(ctor_ok) == ~model_loaded /\ ~ctor_ok

(* ------------------------------- Init -------------------------------- *)

Init ==
  /\ kind = [r \in Req |-> "none"]
  /\ pc = [r \in Req |-> "idle"]
  /\ model = "None"
  /\ model_loaded = FALSE
  /\ model_lock = FALSE
  /\ constructCalls = [r \in Req |-> 0]
  /\ built = 0
  /\ queue = <<>>
  /\ running = {}
  /\ task = [r \in Req |-> "none"]
  /\ future = [r \in Req |-> "none"]
  /\ files = {}
  /\ chat = [r \in Req |-> <<>>]
  /\ hist = [r \in Req |-> <<>>]
  /\ ranOn = {}
  /\ failed = [r \in Req |-> "none"]
  /\ caught = [r \in Req |-> 0]
  /\ exc = [r \in Req |-> "none"]
  /\ segments = [r \in Req |-> <<>>]
  /\ text = [r \in Req |-> ""]
  /\ translated_text = [r \in Req |-> ""]
  /\ muxStatus = [r \in Req |-> -1]
  /\ segs = <<>>
  /\ joined = [done |-> FALSE, text |-> ""]
  /\ errors = <<>>

(* ----------------------------- handlers ------------------------------ *)

\* An update with an audio / a video attachment arrives: handle_audio /
\* handle_video starts and awaits reply_text("Processing ...") (80 / 113).
Start(r, k) ==
  /\ pc[r] = "idle"
  /\ kind' = [kind EXCEPT ![r] = k]
  /\ pc' = [pc EXCEPT ![r] = "ack"]
  /\ Log(r, <<"reply_text">>)
  /\ UNCHANGED <<modelVars, poolVars, dataVars, joinVars, files, chat, ranOn,
                 failed, caught, exc>>

\* Faulty variant of AckReturned: an exception of load_model is swallowed
\* and the handler goes on to the download.
AckReturned_IgnoreLoadError(r) ==
  /\ pc[r] = "ack"
  /\ \E sent \in BOOLEAN, ctor_ok \in BOOLEAN :
       /\ Call(r, "reply_text", AckText(kind[r]), sent)
       /\ IF ~sent
          THEN /\ Escape(r, "ack")
               /\ UNCHANGED <<modelVars, hist, ranOn>>
          ELSE /\ load_model(r, ctor_ok)
               /\ ranOn' = IF model_loaded THEN ranOn
                           ELSE ranOn \cup {<<"construct", "loop">>}
               /\ Goto(r, "get_file",
                       files \cup {<<r, n>> : n \in
                         IF kind[r] = "audio" THEN {"temp_audio"}
                         ELSE {"temp_video", "temp_audio"}})
               /\ Log(r, <<"load_model", "get_file">>)
  /\ UNCHANGED <<kind, poolVars, dataVars, joinVars>>

\* The acknowledgment call returned.  If it raised, the exception leaves the
\* handler (the try starts after it).  Otherwise: load_model (83 / 116), the
\* temporary files are created (85 / 119-120) and get_file is awaited.
AckReturned(r) ==
  /\ pc[r] = "ack"
  /\ \E sent \in BOOLEAN, ctor_ok \in BOOLEAN :
       /\ Call(r, "reply_text", AckText(kind[r]), sent)
       /\ IF ~sent
          THEN /\ Escape(r, "ack")
               /\ UNCHANGED <<modelVars, hist, ranOn>>
          ELSE /\ load_model(r, ctor_ok)
               /\ ranOn' = IF model_loaded THEN ranOn
                           ELSE ranOn \cup {<<"construct", "loop">>}
               /\ IF load_model_raises(ctor_ok)
                  THEN /\ Except(r, "model", files)
                       /\ Log(r, <<"load_model">>)
                  ELSE /\ Goto(r, "get_file",
                               files \cup {<<r, n>> : n \in
                                 IF kind[r] = "audio" THEN {"temp_audio"}
                                 ELSE {"temp_video", "temp_audio"}})
                       /\ Log(r, <<"load_model", "get_file">>)
  /\ UNCHANGED <<kind, poolVars, dataVars, joinVars>>

\* Faulty variant of GetFileReturned: a get_file that raised is tried again.
GetFileReturned_Retry(r) ==
  /\ pc[r] = "get_file"
  /\ \E ok \in BOOLEAN :
       IF ok
       THEN /\ Goto(r, "download", files)
            /\ Log(r, <<"download_to_drive">>)
       ELSE /\ Goto(r, "get_file", files)
            /\ Log(r, <<"get_file">>)
  /\ UNCHANGED <<kind, modelVars, poolVars, dataVars, joinVars, chat, ranOn>>

\* get_file returned (87 / 123); download_to_drive is awaited (88 / 124).
GetFileReturned(r) ==
  /\ pc[r] = "get_file"
  /\ \E ok \in BOOLEAN :
       IF ok
       THEN /\ Goto(r, "download", files)
            /\ Log(r, <<"download_to_drive">>)
       ELSE /\ Except(r, "download", files)
            /\ UNCHANGED hist
  /\ UNCHANGED <<kind, modelVars, poolVars, dataVars, joinVars, chat, ranOn>>

\* The arguments of the calls the lambdas of lines 71 and 97 / 142 make on
\* the worker for request r.
translate_call(r) == [text |-> text[r], src |-> "uz", dest |-> "en"]
gTTS_call(r) == [text |-> translated_text[r], lang |-> "en"]

\* process_audio up to its first await (lines 52-64), on the event loop:
\* AudioSegment.from_file and the resampling (decodes: it succeeds), the
\* delete=False wav_file and audio.export (exports), then the transcription
\* call is handed to the executor.  A failure runs the finally of line 74
\* and reaches the handler's except clause.
process_audio_begin(r, decodes, exports) ==
  /\ ranOn' = ranOn \cup {<<"normalize", "loop">>}
  /\ IF ~decodes
     THEN /\ Except(r, "normalize", process_audio_finally(r, files))
          /\ Log(r, <<"from_file">>)
          /\ Taken(r)
     ELSE IF ~exports
     THEN /\ Except(r, "normalize",
                    process_audio_finally(r, files \cup {<<r, "wav_file">>}))
          /\ Log(r, <<"from_file", "export">>)
          /\ Taken(r)
     ELSE /\ Goto(r, "transcribe", files \cup {<<r, "wav_file">>})
          /\ Log(r, <<"from_file", "export", "transcribe">>)
          /\ Submit(r, "transcribe")

\* download_to_drive returned (88 / 124).  Audio: process_audio starts (91).
\* Video: the audio extraction is handed to the executor (127-130).
DownloadReturned(r) ==
  /\ pc[r] = "download"
  /\ \E ok \in BOOLEAN, decodes \in BOOLEAN, exports \in BOOLEAN :
       IF ~ok
       THEN /\ Except(r, "download", files)
            /\ UNCHANGED <<hist, poolVars, ranOn>>
       ELSE IF kind[r] = "video"
       THEN /\ Goto(r, "extract", files)
            /\ Log(r, <<"write_audiofile">>)
            /\ Submit(r, "extract")
            /\ UNCHANGED ranOn
       ELSE process_audio_begin(r, decodes, exports)
  /\ UNCHANGED <<kind, modelVars, dataVars, joinVars, chat>>

\* handle_video: the extraction future is done (127-130); process_audio
\* starts (133).
ExtractReturned(r) ==
  /\ pc[r] = "extract"
  /\ Done(r)
  /\ \E decodes \in BOOLEAN, exports \in BOOLEAN :
       IF future[r] = "raised"
       THEN /\ Except(r, "extract", files)
            /\ Taken(r)
            /\ UNCHANGED <<hist, ranOn>>
       ELSE process_audio_begin(r, decodes, exports)
  /\ UNCHANGED <<kind, modelVars, dataVars, joinVars, chat>>

\* Faulty variant of TranscribeReturned (as a description of the code): an
\* empty transcript is treated as an error instead of being translated.
TranscribeReturned_RejectEmpty(r) ==
  /\ pc[r] = "transcribe"
  /\ Done(r)
  /\ \E iterates \in BOOLEAN, recognised \in Transcriptions :
       IF future[r] = "raised"
       THEN /\ Except(r, "transcribe", process_audio_finally(r, files))
            /\ Taken(r)
            /\ UNCHANGED <<hist, ranOn, dataVars>>
       ELSE /\ ranOn' = ranOn \cup {<<"segments", "loop">>}
            /\ IF ~iterates \/ recognised = <<>>
               THEN /\ Except(r, "transcribe", process_audio_finally(r, files))
                    /\ Log(r, <<"join">>)
                    /\ Taken(r)
                    /\ UNCHANGED dataVars
               ELSE /\ segments' = [segments EXCEPT ![r] = recognised]
                    /\ text' = [text EXCEPT ![r] = join(" ", recognised)]
                    /\ Goto(r, "translate", files)
                    /\ Log(r, <<"join", "translate">>)
                    /\ Submit(r, "translate")
                    /\ UNCHANGED <<translated_text, muxStatus>>
  /\ UNCHANGED <<kind, modelVars, joinVars, chat>>

\* process_audio: the transcription future is done (62-64).  Its result is
\* list((segments, info)): the pair, with segments the generator
\* faster_whisper returns, which recognises nothing until it is iterated.
\* Line 66 iterates it, on the event loop, and joins the texts; iterating
\* can raise (iterates).  Then the translation is handed to the executor.
TranscribeReturned(r) ==
  /\ pc[r] = "transcribe"
  /\ Done(r)
  /\ \E iterates \in BOOLEAN, recognised \in Transcriptions :
       IF future[r] = "raised"
       THEN /\ Except(r, "transcribe", process_audio_finally(r, files))
            /\ Taken(r)
            /\ UNCHANGED <<hist, ranOn, dataVars>>
       ELSE /\ ranOn' = ranOn \cup {<<"segments", "loop">>}
            /\ IF ~iterates
               THEN /\ Except(r, "transcribe", process_audio_finally(r, files))
                    /\ Log(r, <<"join">>)
                    /\ Taken(r)
                    /\ UNCHANGED dataVars
               ELSE /\ segments' = [segments EXCEPT ![r] = recognised]
                    /\ text' = [text EXCEPT ![r] = join(" ", recognised)]
                    /\ Goto(r, "translate", files)
                    /\ Log(r, <<"join", "translate">>)
                    /\ Submit(r, "translate")
                    /\ UNCHANGED <<translated_text, muxStatus>>
  /\ UNCHANGED <<kind, modelVars, joinVars, chat>>

\* process_audio: the translation future is done (69-73); process_audio
\* returns translation.text through its finally and its locals are gone.
\* The handler creates its output files (94 / 136-137) and hands the
\* synthesis to the executor.
TranslateReturned(r) ==
  /\ pc[r] = "translate"
  /\ Done(r)
  /\ \E answer \in Translations :
       IF future[r] = "raised"
       THEN /\ Except(r, "translate", process_audio_finally(r, files))
            /\ Taken(r)
            /\ UNCHANGED <<hist, translated_text>>
       ELSE /\ translated_text' = [translated_text EXCEPT ![r] = answer]
            /\ Goto(r, "synthesize",
                    process_audio_finally(r, files) \cup {<<r, n>> : n \in
                      IF kind[r] = "audio" THEN {"output_file"}
                      ELSE {"tts_file", "output_file"}})
            /\ Log(r, <<"gTTS.save">>)
            /\ Submit(r, "synthesize")
  /\ segments' = [segments EXCEPT ![r] = <<>>]
  /\ text' = [text EXCEPT ![r] = ""]
  /\ UNCHANGED <<kind, modelVars, muxStatus, joinVars, chat, ranOn>>

\* The synthesis future is done (95-97 / 140-142).  Audio: reply_audio is
\* awaited (100).  Video: the ffmpeg command is handed to the executor (146).
SynthReturned(r) ==
  /\ pc[r] = "synthesize"
  /\ Done(r)
  /\ IF future[r] = "raised"
     THEN /\ Except(r, "synthesize", files)
          /\ Taken(r)
          /\ UNCHANGED hist
     ELSE IF kind[r] = "audio"
     THEN /\ Goto(r, "reply", files)
          /\ Log(r, <<"reply_audio">>)
          /\ Taken(r)
     ELSE /\ Goto(r, "remux", files)
          /\ Log(r, <<"os.system">>)
          /\ Submit(r, "mux")
  /\ UNCHANGED <<kind, modelVars, dataVars, joinVars, chat, ranOn>>

\* Faulty variant of MuxReturned (as a description of the code): a non-zero
\* exit status is turned into an exception.
MuxReturned_Checked(r) ==
  /\ pc[r] = "remux"
  /\ Done(r)
  /\ \E status \in {0, 1} :
       IF future[r] = "raised" \/ status # 0
       THEN /\ Except(r, "remux", files)
            /\ UNCHANGED <<hist, muxStatus>>
       ELSE /\ muxStatus' = [muxStatus EXCEPT ![r] = status]
            /\ Goto(r, "reply", files)
            /\ Log(r, <<"reply_video">>)
  /\ Taken(r)
  /\ UNCHANGED <<kind, modelVars, segments, text, translated_text, joinVars,
                 chat, ranOn>>

\* handle_video: the future of os.system(cmd) is done (146-148).  Its value,
\* the command's exit status, is discarded; reply_video is awaited (151).
MuxReturned(r) ==
  /\ pc[r] = "remux"
  /\ Done(r)
  /\ \E status \in {0, 1} :
       IF future[r] = "raised"
       THEN /\ Except(r, "remux", files)
            /\ UNCHANGED <<hist, muxStatus>>
       ELSE /\ muxStatus' = [muxStatus EXCEPT ![r] = status]
            /\ Goto(r, "reply", files)
            /\ Log(r, <<"reply_video">>)
  /\ Taken(r)
  /\ UNCHANGED <<kind, modelVars, segments, text, translated_text, joinVars,
                 chat, ranOn>>

\* Faulty variant of ReplyReturned: handle_video answers with reply_audio.
ReplyReturned_AudioReply(r) ==
  /\ pc[r] = "reply"
  /\ \E ok \in BOOLEAN :
       /\ Call(r, "reply_audio", "output_file", ok)
       /\ IF ok
          THEN Goto(r, "delete", with_exit(r, files))
          ELSE Except(r, "reply", files)
  /\ UNCHANGED <<kind, modelVars, poolVars, dataVars, joinVars, hist, ranOn>>

\* The result reply returned (100-104 / 151-155).  Either way the with
\* blocks are left; a failure goes through the except clause; then the
\* finally awaits processing_msg.delete() (109 / 160).
ReplyReturned(r) ==
  /\ pc[r] = "reply"
  /\ \E ok \in BOOLEAN :
       /\ Call(r, IF kind[r] = "audio" THEN "reply_audio" ELSE "reply_video",
               "output_file", ok)
       /\ IF ok
          THEN Goto(r, "delete", with_exit(r, files))
          ELSE Except(r, "reply", files)
  /\ UNCHANGED <<kind, modelVars, poolVars, dataVars, joinVars, hist, ranOn>>

\* Faulty variant of ErrReplyReturned: the deletion follows the try statement
\* instead of standing in its finally clause, so an error reply that raises
\* leaves the handler at once.
ErrReplyReturned_NoFinally(r) ==
  /\ pc[r] = "error_reply"
  /\ \E ok \in BOOLEAN :
       /\ Call(r, "reply_text", ErrorText(kind[r]), ok)
       /\ exc' = [exc EXCEPT ![r] = IF ok THEN "none" ELSE "error_reply"]
       /\ pc' = [pc EXCEPT ![r] = IF ok THEN "delete" ELSE "warning"]
  /\ UNCHANGED <<kind, modelVars, poolVars, dataVars, joinVars, files, hist,
                 ranOn, failed, caught>>

\* except clause: reply_text(error text) returned or raised (107 / 158);
\* the finally awaits processing_msg.delete() with the exception, if any,
\* pending.
ErrReplyReturned(r) ==
  /\ pc[r] = "error_reply"
  /\ \E ok \in BOOLEAN :
       /\ Call(r, "reply_text", ErrorText(kind[r]), ok)
       /\ exc' = [exc EXCEPT ![r] = IF ok THEN "none" ELSE "error_reply"]
  /\ pc' = [pc EXCEPT ![r] = "delete"]
  /\ UNCHANGED <<kind, modelVars, poolVars, dataVars, joinVars, files, hist,
                 ranOn, failed, caught>>

\* finally clause: processing_msg.delete() returned or raised (109 / 160)
\* and the handler is left, normally or with an exception; its locals are
\* gone.
DeleteReturned(r) ==
  /\ pc[r] = "delete"
  /\ \E ok \in BOOLEAN :
       /\ Call(r, "delete", AckText(kind[r]), ok)
       /\ IF ~ok THEN Escape(r, "delete")
          ELSE IF exc[r] # "none" THEN Escape(r, exc[r])
          ELSE Goto(r, "done", files)
  /\ translated_text' = [translated_text EXCEPT ![r] = ""]
  /\ muxStatus' = [muxStatus EXCEPT ![r] = -1]
  /\ UNCHANGED <<kind, modelVars, poolVars, segments, text, joinVars, hist,
                 ranOn>>

\* error_handler: reply_text(warning) returned or raised (174).
WarningReturned(r) ==
  /\ pc[r] = "warning"
  /\ \E ok \in BOOLEAN : Call(r, "reply_text", WarningText, ok)
  /\ pc' = [pc EXCEPT ![r] = "done"]
  /\ UNCHANGED <<kind, modelVars, poolVars, dataVars, joinVars, files, hist,
                 ranOn, failed, caught, exc>>

(* ---------------------------- worker pool ---------------------------- *)

\* ThreadPoolExecutor(max_workers=4) (line 25): a free worker thread takes
\* the oldest queued task.
WorkerStart ==
  /\ queue # <<>>
  /\ Cardinality(running) < max_workers
  /\ running' = running \cup {Head(queue)}
  /\ queue' = Tail(queue)
  /\ UNCHANGED <<kind, pc, modelVars, task, future, dataVars, joinVars, files,
                 chat, hist, ranOn, failed, caught, exc>>

\* Faulty variant of WorkerFinish: the task's result never reaches its
\* future, so the handler awaiting it is never resumed.
WorkerFinish_LostResult(r) ==
  /\ r \in running
  /\ running' = running \ {r}
  /\ ranOn' = ranOn \cup {<<task[r], "worker">>}
  /\ UNCHANGED <<kind, pc, modelVars, queue, task, future, dataVars, joinVars,
                 files, chat, hist, failed, caught, exc>>

\* The worker thread ran the task's lambda to its end: it returned or raised.
WorkerFinish(r) ==
  /\ r \in running
  /\ running' = running \ {r}
  /\ \E ok \in BOOLEAN :
       future' = [future EXCEPT ![r] = IF ok THEN "ok" ELSE "raised"]
  /\ ranOn' = ranOn \cup {<<task[r], "worker">>}
  /\ UNCHANGED <<kind, pc, modelVars, queue, task, dataVars, joinVars, files,
                 chat, hist, failed, caught, exc>>

(* --------------------------- specification --------------------------- *)

Next ==
  \/ \E r \in Req, k \in Kinds : Start(r, k)
  \/ \E r \in Req : AckReturned(r)
  \/ \E r \in Req : GetFileReturned(r)
  \/ \E r \in Req : DownloadReturned(r)
  \/ \E r \in Req : ExtractReturned(r)
  \/ \E r \in Req : TranscribeReturned(r)
  \/ \E r \in Req : TranslateReturned(r)
  \/ \E r \in Req : SynthReturned(r)
  \/ \E r \in Req : MuxReturned(r)
  \/ \E r \in Req : ReplyReturned(r)
  \/ \E r \in Req : ErrReplyReturned(r)
  \/ \E r \in Req : DeleteReturned(r)
  \/ \E r \in Req : WarningReturned(r)
  \/ WorkerStart
  \/ \E r \in Req : WorkerFinish(r)

Spec == Init /\ [][Next]_vars

(* The transcript assembly of process_audio (line 66) on its own: any       *)
(* sequence of at most MaxSegments segment texts is joined.                 *)
Texts == {"", " ", "a", "salom", "dunyo"}

SegmentSeqs == UNION {[1..n -> Texts] : n \in 0..MaxSegments}

InitJoin ==
  /\ kind = [r \in Req |-> "none"]
  /\ pc = [r \in Req |-> "idle"]
  /\ model = "None"
  /\ model_loaded = FALSE
  /\ model_lock = FALSE
  /\ constructCalls = [r \in Req |-> 0]
  /\ built = 0
  /\ queue = <<>>
  /\ running = {}
  /\ task = [r \in Req |-> "none"]
  /\ future = [r \in Req |-> "none"]
  /\ files = {}
  /\ chat = [r \in Req |-> <<>>]
  /\ hist = [r \in Req |-> <<>>]
  /\ ranOn = {}
  /\ failed = [r \in Req |-> "none"]
  /\ caught = [r \in Req |-> 0]
  /\ exc = [r \in Req |-> "none"]
  /\ segments = [r \in Req |-> <<>>]
  /\ text = [r \in Req |-> ""]
  /\ translated_text = [r \in Req |-> ""]
  /\ muxStatus = [r \in Req |-> -1]
  /\ segs \in SegmentSeqs
  /\ joined = [done |-> FALSE, text |-> ""]
  /\ errors = <<>>

JoinSegments ==
  /\ ~joined.done
  /\ joined' = [done |-> TRUE, text |-> join(" ", segs)]
  /\ UNCHANGED <<kind, pc, modelVars, poolVars, dataVars, files, chat, hist,
                 ranOn, failed, caught, exc, segs, errors>>

SpecJoin == InitJoin /\ [][JoinSegments]_vars

(* ------------------------ observing a request ------------------------ *)

\* The handler of r has returned, normally or with an exception.
Returned(r) == pc[r] \in {"warning", "done"}

\* The acknowledgment message of r was sent: its first chat call succeeded.
AckSent(r) == Len(chat[r]) >= 1 /\ chat[r][1].ok

\* Positions in the chat log of r of the calls of operation op.
Calls(r, op) == {i \in DOMAIN chat[r] : chat[r][i].op = op}

\* ... of the reply_text calls carrying one of the texts.
TextCalls(r, texts) ==
  {i \in Calls(r, "reply_text") : chat[r][i].arg \in texts}

\* ... of the result replies the user received.
ResultReplies(r) ==
  {i \in Calls(r, "reply_audio") \cup Calls(r, "reply_video") : chat[r][i].ok}

\* The two fixed error texts the spec names, by media kind.
FixedText == [audio |-> "Error processing audio. Please try again.",
              video |-> "Error processing video. Please try again."]

ErrorTexts == {FixedText.audio, FixedText.video}

\* Temporary files of request r still on disk.
FilesOf(r) == {f \in files : f[1] = r}

(* ------------------------------- C1 ---------------------------------- *)
\* C1: once the acknowledgment of a request was sent, processing_msg.delete()
\* is called exactly once by the time the handler has returned, and never
\* more than once, on every exit path: success, failure of any stage, and
\* failure of the error reply itself.
AckDeletedOnce ==
  \A r \in Req :
    AckSent(r) =>
      /\ Cardinality(Calls(r, "delete")) <= 1
      /\ Returned(r) => Cardinality(Calls(r, "delete")) = 1
      /\ pc[r] \in {"idle", "ack", "get_file", "download", "extract",
                    "transcribe", "translate", "synthesize", "remux",
                    "reply", "error_reply", "delete"}
           => Calls(r, "delete") = {}

\* A request whose stage failed and whose error reply failed too has
\* returned with its acknowledgment deleted.
AckDeletedOnceWitness ==
  \E r \in Req :
    /\ Returned(r)
    /\ failed[r] = "synthesize"
    /\ \E i \in TextCalls(r, ErrorTexts) : ~chat[r][i].ok
    /\ \E i \in Calls(r, "delete") : chat[r][i].ok

(* ------------------------------- C2 ---------------------------------- *)
\* The error messages the user received: the fixed texts and the generic
\* warning, delivered.
ErrorMessagesReceived(r) ==
  {i \in TextCalls(r, ErrorTexts \cup {WarningText}) : chat[r][i].ok}

\* C2 as stated: when a stage of a request failed, the user has received
\* exactly one error message, it is the fixed text of the handler's media
\* kind, and no result reply was delivered.
OneErrorMessageReceived ==
  \A r \in Req :
    (pc[r] = "done" /\ failed[r] # "none") =>
      /\ Cardinality(ErrorMessagesReceived(r)) = 1
      /\ \A i \in ErrorMessagesReceived(r) : chat[r][i].arg = FixedText[kind[r]]
      /\ ResultReplies(r) = {}

\* C2 as amended: when a stage of a request failed, the handler has made
\* exactly one error reply_text call, with the fixed text of its own media
\* kind, and no result reply was delivered; the user has received exactly that
\* one message when neither the error reply nor the acknowledgment deletion
\* raised, and the generic warning is sent only when one of them did.
OneErrorReplyCall ==
  \A r \in Req :
    (Returned(r) /\ failed[r] # "none") =>
      /\ Cardinality(TextCalls(r, ErrorTexts)) = 1
      /\ \A i \in TextCalls(r, ErrorTexts) : chat[r][i].arg = FixedText[kind[r]]
      /\ ResultReplies(r) = {}
      /\ (pc[r] = "done" /\ exc[r] = "none")
           => ErrorMessagesReceived(r) = TextCalls(r, ErrorTexts)
      /\ TextCalls(r, {WarningText}) # {} => exc[r] \in {"error_reply", "delete"}

\* A video request whose normalization (in the shared process_audio) failed
\* has finished, the video text delivered.
OneErrorReplyCallWitness ==
  \E r \in Req :
    /\ pc[r] = "done"
    /\ kind[r] = "video"
    /\ failed[r] = "normalize"
    /\ exc[r] = "none"
    /\ \E i \in ErrorMessagesReceived(r) : chat[r][i].arg = FixedText.video

(* ------------------------------- C3 ---------------------------------- *)
\* C3: when the handler of a request has returned, successfully or after a
\* failure at any stage, none of the temporary files the request created is
\* left, whatever the other requests are doing.
NoArtifactLeft ==
  \A r \in Req :
    /\ Returned(r) => FilesOf(r) = {}
    /\ pc[r] = "idle" => FilesOf(r) = {}

\* A video request that created all five files and failed at its last stage
\* has returned while another request still holds files.
NoArtifactLeftWitness ==
  \E r1, r2 \in Req :
    /\ r1 # r2
    /\ Returned(r1)
    /\ kind[r1] = "video"
    /\ failed[r1] = "reply"
    /\ <<r2, "wav_file">> \in files

(* ------------------------------- C4 ---------------------------------- *)
\* C4: WhisperModel(...) returns a model at most once in the life of the
\* process, and once it has, no call of load_model constructs again, for any
\* interleaving of the requests.
ModelBuiltOnce ==
  /\ [](built <= 1)
  /\ [][model_loaded =>
          UNCHANGED <<constructCalls, built, model, model_loaded>>]_vars

\* Two requests are past load_model; one constructed the model, the other
\* found it loaded.
ModelBuiltOnceWitness ==
  \E r1, r2 \in Req :
    /\ r1 # r2
    /\ built = 1
    /\ constructCalls[r1] = 1
    /\ constructCalls[r2] = 0
    /\ pc[r1] \notin {"idle", "ack"}
    /\ pc[r2] \notin {"idle", "ack"}
    /\ AckSent(r1) /\ AckSent(r2)

(* ------------------------------- C5 ---------------------------------- *)
\* The request r calls load_model in this step.
CallsLoadModel(r) ==
  /\ Len(hist'[r]) > Len(hist[r])
  /\ hist'[r][Len(hist[r]) + 1] = "load_model"

\* C5: when the construction inside load_model raises, the exception reaches
\* the calling handler, model_loaded stays False, model stays unset and the
\* lock is released; one call of load_model constructs at most once; and a
\* call of load_model made while the model is not loaded constructs (again).
ConstructionFailurePreserved ==
  /\ [](/\ model_loaded <=> model # "None"
        /\ model_loaded <=> built >= 1
        /\ ~model_lock
        /\ \A r \in Req :
             /\ constructCalls[r] <= 1
             /\ failed[r] = "model" =>
                  /\ constructCalls[r] = 1
                  /\ hist[r] = <<"reply_text", "load_model">>)
  /\ [][\A r \in Req :
          (constructCalls'[r] > constructCalls[r] /\ built' = built) =>
            /\ ~model_loaded'
            /\ model' = "None"
            /\ ~model_lock'
            /\ failed'[r] = "model"
            /\ pc'[r] = "error_reply"]_vars
  /\ [][\A r \in Req :
          (CallsLoadModel(r) /\ ~model_loaded) =>
            constructCalls'[r] = constructCalls[r] + 1]_vars

\* The construction of one request raised and the next call of load_model,
\* by another request, constructed again and succeeded.
ConstructionFailurePreservedWitness ==
  \E r1, r2 \in Req :
    /\ r1 # r2
    /\ failed[r1] = "model"
    /\ constructCalls[r2] = 1
    /\ model_loaded

(* ------------------------------- C6 ---------------------------------- *)
\* The pipeline stage an operation belongs to.
StageOf(op) ==
  CASE op = "reply_text"                                  -> "ack"
    [] op = "load_model"                                  -> "model"
    [] op \in {"get_file", "download_to_drive"}           -> "download"
    [] op = "write_audiofile"                             -> "extract"
    [] op \in {"from_file", "export"}                     -> "normalize"
    [] op \in {"transcribe", "join"}                      -> "transcribe"
    [] op = "translate"                                   -> "translate"
    [] op = "gTTS.save"                                   -> "synthesize"
    [] op = "os.system"                                   -> "remux"
    [] op \in {"reply_audio", "reply_video"}              -> "reply"

\* The fixed order of the stages of a request of kind k.
StageOrder(k) ==
  IF k = "audio"
  THEN <<"ack", "model", "download", "normalize", "transcribe", "translate",
         "synthesize", "reply">>
  ELSE <<"ack", "model", "download", "extract", "normalize", "transcribe",
         "translate", "synthesize", "remux", "reply">>

\* The stage of the work a request handed to the executor.
TaskStage(w) == IF w = "mux" THEN "remux" ELSE w

Position(seq, x) == CHOOSE i \in DOMAIN seq : seq[i] = x

InPool(r) ==
  \/ r \in running
  \/ \E i \in DOMAIN queue : queue[i] = r
  \/ future[r] # "none"

\* C6: the operations a request has started follow the fixed stage order of
\* its kind: they begin with the acknowledgment, each belongs to the stage of
\* the one before or to the next stage (none skipped, none revisited), no
\* operation is started twice, nothing is started while the request's task
\* is with the worker pool, and nothing is started after a stage failed.
StagesInOrder ==
  \A r \in Req :
    kind[r] # "none" =>
      LET h == hist[r]
          ord == StageOrder(kind[r])
          pos(i) == Position(ord, StageOf(h[i]))
      IN /\ \A i \in DOMAIN h : \E j \in DOMAIN ord : ord[j] = StageOf(h[i])
         /\ h # <<>> /\ pos(1) = 1
         /\ \A i \in 1..(Len(h) - 1) : pos(i + 1) \in {pos(i), pos(i) + 1}
         /\ \A i, j \in DOMAIN h : i # j => h[i] # h[j]
         /\ InPool(r) => StageOf(h[Len(h)]) = TaskStage(task[r])
         /\ failed[r] # "none" => StageOf(h[Len(h)]) = failed[r]

\* A video request has gone through all ten stages.
StagesInOrderWitness ==
  \E r \in Req :
    /\ kind[r] = "video"
    /\ pc[r] = "done"
    /\ failed[r] = "none"
    /\ Len(hist[r]) = 13

(* ------------------------------- C7 ---------------------------------- *)
\* C7: when every stage of a request succeeded, the user has received exactly
\* one result reply, of the handler's kind, and the handler made no error
\* reply; the result reply precedes the deletion of the acknowledgment; and
\* when the deletion succeeded too the user has received no error message.
ResultThenDelete ==
  \A r \in Req :
    (AckSent(r) /\ failed[r] = "none" /\ pc[r] \in {"delete", "warning", "done"}) =>
      /\ Cardinality(ResultReplies(r)) = 1
      /\ ResultReplies(r) =
           Calls(r, IF kind[r] = "audio" THEN "reply_audio" ELSE "reply_video")
      /\ Calls(r, IF kind[r] = "audio" THEN "reply_video" ELSE "reply_audio") = {}
      /\ TextCalls(r, ErrorTexts) = {}
      /\ \A i \in ResultReplies(r) : \A j \in Calls(r, "delete") : i < j
      /\ (pc[r] = "done" /\ exc[r] = "none") =>
           /\ ErrorMessagesReceived(r) = {}
           /\ \E j \in Calls(r, "delete") : chat[r][j].ok

\* A video request has succeeded at every stage and has finished.
ResultThenDeleteWitness ==
  \E r \in Req :
    /\ kind[r] = "video"
    /\ pc[r] = "done"
    /\ failed[r] = "none"
    /\ exc[r] = "none"
    /\ ResultReplies(r) # {}

(* ------------------------------- C8 ---------------------------------- *)
RECURSIVE TotalLen(_)
TotalLen(ts) == IF ts = <<>> THEN 0 ELSE Len(ts[1]) + TotalLen(Tail(ts))

\* Where text i starts in the transcript when exactly one character
\* separates consecutive texts: the number of characters before it.
Offset(ts, i) == TotalLen(SubSeq(ts, 1, i - 1)) + (i - 1)

\* C8: the transcript consists of the segment texts in their order, each
\* followed, except the last, by exactly one space, and of nothing else; for
\* <<"salom", "dunyo">> it is "salom dunyo", for no segments it is empty.
TranscriptJoined ==
  joined.done =>
    LET t == joined.text
        n == Len(segs)
    IN /\ Len(t) = TotalLen(segs) + (IF n = 0 THEN 0 ELSE n - 1)
       /\ \A i \in 1..n :
            SubSeq(t, Offset(segs, i) + 1, Offset(segs, i) + Len(segs[i])) = segs[i]
       /\ \A i \in 2..n : SubSeq(t, Offset(segs, i), Offset(segs, i)) = " "
       /\ segs = <<"salom", "dunyo">> => t = "salom dunyo"
       /\ segs = <<>> => t = ""

\* The segments salom, dunyo have been joined.
TranscriptJoinedWitness ==
  /\ joined.done
  /\ segs = <<"salom", "dunyo">>
  /\ joined.text = "salom dunyo"

(* ------------------------------- C9 ---------------------------------- *)
\* C9: an exception of a pipeline stage is caught by the handler's except
\* clause, once: whatever leaves a handler for error_handler comes from the
\* acknowledgment, the error reply or the deletion, never from a stage; after
\* it no operation of the request is started (again); and a request that has
\* not arrived yet can still be taken up.
RecoveredAtHandler ==
  \A r \in Req :
    /\ caught[r] <= 1
    /\ failed[r] # "none" <=> caught[r] = 1
    /\ exc[r] \in {"none", "ack", "error_reply", "delete"}
    /\ failed[r] # "none" =>
         /\ pc[r] \in {"error_reply", "delete", "warning", "done"}
         /\ StageOf(hist[r][Len(hist[r])]) = failed[r]
         /\ ~InPool(r)
    /\ \A i, j \in DOMAIN hist[r] : i # j => hist[r][i] # hist[r][j]
    /\ pc[r] = "idle" => \A k \in Kinds : ENABLED Start(r, k)

\* One request failed at transcription and was answered with the error text;
\* another one has been served in full.
RecoveredAtHandlerWitness ==
  \E r1, r2 \in Req :
    /\ r1 # r2
    /\ pc[r1] = "done" /\ failed[r1] = "transcribe" /\ exc[r1] = "none"
    /\ pc[r2] = "done" /\ failed[r2] = "none" /\ exc[r2] = "none"
    /\ ResultReplies(r2) # {}

(* ------------------------------- C10 --------------------------------- *)
\* C10: model inference (the transcribe call and the production of the
\* segments), the translation call, the synthesis and the mux command run on
\* a worker thread, never on the event-loop thread.
OffloadedWorkOnWorker ==
  \A w \in ranOn :
    w[1] \in {"transcribe", "segments", "translate", "synthesize", "mux"}
      => w[2] = "worker"

(* ------------------- more requests than workers ---------------------- *)
(* The same handlers serving NumPoolRequests audio messages at once, from   *)
(* the moment all of them have handed their transcription to the executor   *)
(* (in their order of arrival, the first one having loaded the model), in   *)
(* the runs in which no call raises and the audio is silent (no segment, an *)
(* empty translation): more tasks than the pool has workers.                *)
PoolReq == 1..NumPoolRequests

InitPool ==
  /\ kind = [r \in PoolReq |-> "audio"]
  /\ pc = [r \in PoolReq |-> "transcribe"]
  /\ model = "WhisperModel"
  /\ model_loaded = TRUE
  /\ model_lock = FALSE
  /\ constructCalls = [r \in PoolReq |-> IF r = 1 THEN 1 ELSE 0]
  /\ built = 1
  /\ queue = [i \in 1..NumPoolRequests |-> i]
  /\ running = {}
  /\ task = [r \in PoolReq |-> "transcribe"]
  /\ future = [r \in PoolReq |-> "pending"]
  /\ files = {<<r, n>> : r \in PoolReq, n \in {"temp_audio", "wav_file"}}
  /\ chat = [r \in PoolReq |->
               <<[op |-> "reply_text", arg |-> AckText("audio"), ok |-> TRUE]>>]
  /\ hist = [r \in PoolReq |->
               <<"reply_text", "load_model", "get_file", "download_to_drive",
                 "from_file", "export", "transcribe">>]
  /\ ranOn = {<<"construct", "loop">>, <<"normalize", "loop">>}
  /\ failed = [r \in PoolReq |-> "none"]
  /\ caught = [r \in PoolReq |-> 0]
  /\ exc = [r \in PoolReq |-> "none"]
  /\ segments = [r \in PoolReq |-> <<>>]
  /\ text = [r \in PoolReq |-> ""]
  /\ translated_text = [r \in PoolReq |-> ""]
  /\ muxStatus = [r \in PoolReq |-> -1]
  /\ segs = <<>>
  /\ joined = [done |-> FALSE, text |-> ""]
  /\ errors = <<>>

\* Nothing has raised and the audio was silent.
Quiet ==
  \A r \in PoolReq :
    /\ failed[r] = "none"
    /\ exc[r] = "none"
    /\ future[r] # "raised"
    /\ \A i \in DOMAIN chat[r] : chat[r][i].ok
    /\ segments[r] = <<>>
    /\ translated_text[r] = ""
    /\ muxStatus[r] \in {-1, 0}

NextPool ==
  \/ \E r \in PoolReq : TranscribeReturned(r) /\ Quiet'
  \/ \E r \in PoolReq : TranslateReturned(r) /\ Quiet'
  \/ \E r \in PoolReq : SynthReturned(r) /\ Quiet'
  \/ \E r \in PoolReq : ReplyReturned(r) /\ Quiet'
  \/ \E r \in PoolReq : DeleteReturned(r) /\ Quiet'
  \/ WorkerStart /\ Quiet'
  \/ \E r \in PoolReq : WorkerFinish(r) /\ Quiet'

\* The state the pool runs start from, for the requests of Req: reachable.
PoolStartReachable ==
  /\ \A r \in Req :
       /\ kind[r] = "audio"
       /\ pc[r] = "transcribe"
       /\ future[r] = "pending"
       /\ chat[r] = <<[op |-> "reply_text", arg |-> AckText("audio"), ok |-> TRUE]>>
       /\ hist[r] = <<"reply_text", "load_model", "get_file", "download_to_drive",
                      "from_file", "export", "transcribe">>
       /\ constructCalls[r] = IF r = 1 THEN 1 ELSE 0
  /\ queue = [i \in 1..NumRequests |-> i]
  /\ running = {}
  /\ files = {<<r, n>> : r \in Req, n \in {"temp_audio", "wav_file"}}
  /\ ranOn = {<<"construct", "loop">>, <<"normalize", "loop">>}
  /\ built = 1 /\ model_loaded /\ model = "WhisperModel"

SpecPool == InitPool /\ [][NextPool]_vars

(* ------------------------------- C11 --------------------------------- *)
InQueue(q, r) == \E i \in DOMAIN q : q[i] = r

\* C11: at most 4 tasks execute on the worker pool at once; a submitted task
\* is accepted into the queue, leaves it only to start executing, and starts
\* only when fewer than 4 are executing (so with 4 executing it waits until
\* one has finished); every task whose future is pending is queued or
\* executing, exactly once: none is dropped or rejected.
PoolBounded ==
  /\ [](/\ Cardinality(running) <= 4
        /\ \A i, j \in DOMAIN queue : i # j => queue[i] # queue[j]
        /\ \A r \in PoolReq :
             /\ future[r] = "pending" <=> (r \in running \/ InQueue(queue, r))
             /\ ~(r \in running /\ InQueue(queue, r)))
  /\ [][\A r \in PoolReq :
          /\ (InQueue(queue, r) /\ ~InQueue(queue', r)) =>
               (r \in running' /\ Cardinality(running) < 4)
          /\ (r \notin running /\ r \in running') => InQueue(queue, r)
          /\ (r \in running /\ r \notin running') => future'[r] \in {"ok", "raised"}
          /\ (future[r] # "pending" /\ future'[r] = "pending") =>
               InQueue(queue', r)]_vars

\* Four tasks are executing and a fifth one waits in the queue.
PoolBoundedWitness ==
  /\ Cardinality(running) = 4
  /\ queue # <<>>
  /\ \E r \in PoolReq : task[r] = "translate" /\ InQueue(queue, r)

(* ------------------------------- C12 --------------------------------- *)
\* Where a handler can be suspended, by what it awaits.
WorkerAwaits   == {"extract", "transcribe", "translate", "synthesize", "remux"}
DownloadAwaits == {"download"}
ChatAwaits     == {"ack", "get_file", "reply", "error_reply", "delete"}

\* The handler of r has started and not returned.
InHandler(r) == pc[r] \notin {"idle", "warning", "done"}

\* A handler (or error_handler) of r runs in this step.
Runs(r) == pc'[r] # pc[r]

\* C12 as stated: another request's handler runs only while the handler is
\* suspended at the await of a worker-pool task or of the attachment download.
SuspendedOnlyAtPoolOrDownload ==
  [][\A r1, r2 \in Req :
       (r1 # r2 /\ InHandler(r1) /\ Runs(r2)) =>
         pc[r1] \in WorkerAwaits \cup DownloadAwaits]_vars

\* C12 as amended: a handler that has started and not returned is suspended
\* at the await of a worker-pool task (exactly when it has a future), of the
\* attachment download or of a chat API call (acknowledgment, get_file,
\* result reply, error reply, deletion), never at the model lock; it resumes
\* from a worker-pool await only when the future is done; and a step runs one
\* handler only, leaving every other request's position, operations and chat
\* calls as they were.
SuspensionPoints ==
  /\ [](/\ ~model_lock
        /\ \A r \in Req :
             /\ InHandler(r) =>
                  pc[r] \in WorkerAwaits \cup DownloadAwaits \cup ChatAwaits
             /\ pc[r] \in WorkerAwaits <=> future[r] # "none")
  /\ [][\A r \in Req :
          Runs(r) =>
            /\ pc[r] \in WorkerAwaits => Done(r)
            /\ \A r2 \in Req \ {r} :
                 /\ pc'[r2] = pc[r2]
                 /\ hist'[r2] = hist[r2]
                 /\ chat'[r2] = chat[r2]]_vars

\* One handler is suspended at its result reply while another, which ran in
\* between, is suspended at its error reply.
SuspensionPointsWitness ==
  \E r1, r2 \in Req :
    /\ r1 # r2
    /\ pc[r1] = "reply"
    /\ pc[r2] = "error_reply"
    /\ failed[r2] = "translate"

(* ------------------------------- C13 --------------------------------- *)
\* C13: when os.system(cmd) returns (without raising), whatever its exit
\* status, handle_video goes on to reply_video with output_file; after a
\* non-zero status the except clause is entered only if reply_video itself
\* raises, and a reply_video that succeeds is delivered with no error reply.
MuxStatusIgnored ==
  /\ [][\A r \in Req :
          (pc[r] = "remux" /\ future[r] = "ok" /\ Runs(r)) =>
            /\ pc'[r] = "reply"
            /\ failed'[r] = "none"
            /\ hist'[r] = Append(hist[r], "reply_video")]_vars
  /\ [](\A r \in Req :
          muxStatus[r] # 0 /\ muxStatus[r] # -1 =>
            /\ kind[r] = "video"
            /\ hist[r][Len(hist[r])] = "reply_video"
            /\ failed[r] \in {"none", "reply"}
            /\ (pc[r] = "delete" /\ failed[r] = "none") =>
                 /\ \E i \in ResultReplies(r) :
                      chat[r][i] = [op |-> "reply_video", arg |-> "output_file",
                                    ok |-> TRUE]
                 /\ TextCalls(r, ErrorTexts) = {})

\* The mux command returned a non-zero status and the video was delivered.
MuxStatusIgnoredWitness ==
  \E r \in Req :
    /\ muxStatus[r] = 1
    /\ pc[r] = "delete"
    /\ failed[r] = "none"
    /\ ResultReplies(r) # {}

(* ------------------------------- C14 --------------------------------- *)
\* C14: a transcription that yields no segment is not special-cased: from
\* the returned transcription future the handler can go on with no segments,
\* and whenever it does the empty transcript is handed to the translation
\* with source "uz" and target "en"; when that translation returns,
\* process_audio returns its text without raising (its wav_file removed) and
\* the handler hands exactly that text to the synthesis.
EmptyTranscriptFlows ==
  /\ [](\A r \in Req :
          (pc[r] = "transcribe" /\ future[r] = "ok") =>
            ENABLED (/\ TranscribeReturned(r)
                     /\ segments'[r] = <<>>
                     /\ pc'[r] = "translate"))
  /\ [][\A r \in Req :
          (pc[r] = "transcribe" /\ pc'[r] = "translate" /\ segments'[r] = <<>>) =>
            /\ text'[r] = ""
            /\ failed'[r] = "none"
            /\ task'[r] = "translate" /\ future'[r] = "pending"
            /\ InQueue(queue', r)
            /\ translate_call(r)' = [text |-> "", src |-> "uz", dest |-> "en"]]_vars
  /\ [][\A r \in Req :
          (pc[r] = "translate" /\ text[r] = "" /\ future[r] = "ok" /\ Runs(r)) =>
            /\ pc'[r] = "synthesize"
            /\ failed'[r] = "none"
            /\ <<r, "wav_file">> \notin files'
            /\ translated_text'[r] \in Translations
            /\ task'[r] = "synthesize" /\ future'[r] = "pending"
            /\ gTTS_call(r)' = [text |-> translated_text'[r], lang |-> "en"]]_vars

\* An empty transcript was handed to the translation, which has returned.
EmptyTranscriptFlowsWitness ==
  \E r \in Req :
    /\ pc[r] = "translate"
    /\ segments[r] = <<>>
    /\ text[r] = ""
    /\ future[r] = "ok"
    /\ hist[r][Len(hist[r])] = "translate"


(* ------------------------------- C15 --------------------------------- *)
(* error_handler (170-174) on its own. The application calls it with the  *)
(* update whose processing raised: an update with a message, an update    *)
(* without one (update.message is None), or None for an error raised      *)
(* outside the processing of any update (for example while polling).      *)
MaxErrors == 3
Updates == {"message", "no_message", "None"}
Errors  == {"NetworkError", "ValueError"}

\* The last invocation, if any, has returned or raised.
NoneRunning ==
  IF errors = <<>> THEN TRUE ELSE errors[Len(errors)].state # "reply"

\* error_handler(update, context) up to its first await or its end: line 172
\* logs; line 173 reads update.message, which raises AttributeError on
\* None; with a message the call awaits reply_text (174).
error_handler(u, e) ==
  /\ Len(errors) < MaxErrors
  /\ NoneRunning
  /\ errors' = Append(errors,
       [update |-> u, error |-> e, logged |-> <<u, e>>, sent |-> "none",
        state |-> CASE u = "None" -> "raised"
                    [] u = "no_message" -> "returned"
                    [] OTHER -> "reply"])
  /\ UNCHANGED <<kind, pc, modelVars, poolVars, dataVars, files, chat, hist,
                 ranOn, failed, caught, exc, segs, joined>>

\* The awaited reply_text of line 174 returns or raises; nothing catches.
error_handler_reply ==
  /\ ~NoneRunning
  /\ \E ok \in BOOLEAN :
       errors' = [errors EXCEPT ![Len(errors)] =
                    [@ EXCEPT !.sent = IF ok THEN "ok" ELSE "failed",
                              !.state = IF ok THEN "returned" ELSE "raised"]]
  /\ UNCHANGED <<kind, pc, modelVars, poolVars, dataVars, files, chat, hist,
                 ranOn, failed, caught, exc, segs, joined>>

NextErr ==
  \/ \E u \in Updates, e \in Errors : error_handler(u, e)
  \/ error_handler_reply

SpecErr == Init /\ [][NextErr]_vars

\* C15: every invocation of error_handler logs the update and the error;
\* with a message context it sends the warning reply; without one (an
\* update without a message, or no update at all) it sends nothing and
\* returns without raising.
ErrorHandlerSafe ==
  \A i \in DOMAIN errors :
    LET c == errors[i] IN
      /\ c.logged = <<c.update, c.error>>
      /\ c.update = "message" => (c.state = "reply" \/ c.sent # "none")
      /\ c.update # "message" => (c.sent = "none" /\ c.state = "returned")


(* ------------------------------- C16 --------------------------------- *)
(* Progress. The runs of Spec (every outcome of every call, NumRequests    *)
(* requests) and the runs of SpecPool (NumPoolRequests requests, more      *)
(* than the pool has workers) together, under the scheduling the claim     *)
(* assumes: an awaited call that has completed resumes its handler (the    *)
(* event loop runs every ready task), an idle worker thread takes the      *)
(* oldest queued task, and a task executing on a worker ends.              *)
InitLive == Init \/ InitPool

\* A step of the pool runs keeps them free of failures, as NextPool does.
Live(A) == A /\ (DOMAIN pc = PoolReq => Quiet')

\* The event loop resumes the handler of r at the await it is suspended at.
Resume(r) ==
  \/ AckReturned(r)
  \/ GetFileReturned(r)
  \/ DownloadReturned(r)
  \/ ExtractReturned(r)
  \/ TranscribeReturned(r)
  \/ TranslateReturned(r)
  \/ SynthReturned(r)
  \/ MuxReturned(r)
  \/ ReplyReturned(r)
  \/ ErrReplyReturned(r)
  \/ DeleteReturned(r)
  \/ WarningReturned(r)

NextLive ==
  \/ DOMAIN pc = Req /\ Next
  \/ DOMAIN pc = PoolReq /\ NextPool

\* Some handler whose awaited call has completed is resumed, or a worker
\* thread starts or ends a task.
Progress ==
  Live((\E r \in DOMAIN pc : Resume(r) \/ WorkerFinish(r)) \/ WorkerStart)

\* The event loop and the worker threads do not stop while there is work
\* they can do. (Every such step stays possible until it is taken, so this
\* follows from each ready task and each thread being scheduled.)
Fairness == WF_vars(Progress)

FairSpec == InitLive /\ [][NextLive]_vars /\ Fairness

\* The handler of r has ended and, if its acknowledgment was sent, has
\* made the delete call for it.
Ended(r) ==
  /\ pc[r] = "done"
  /\ AckSent(r) => Calls(r, "delete") # {}

\* C16: every request that started eventually reaches its terminal state
\* with its acknowledgment deleted, with more requests than workers too:
\* none waits forever for the lock or for a worker. (A started request
\* never becomes idle again, so this is: from some point on every request
\* either never started or has ended.)
EveryRequestTerminates ==
  <>[](\A r \in DOMAIN pc : pc[r] = "idle" \/ Ended(r))

\* All of more than max_workers concurrent requests have ended, each with
\* its acknowledgment deleted, the last of them after waiting for a worker.
EveryRequestTerminatesWitness ==
  /\ DOMAIN pc = PoolReq
  /\ Cardinality(PoolReq) > max_workers
  /\ \A r \in PoolReq :
       /\ pc[r] = "done"
       /\ Calls(r, "delete") # {}
       /\ ResultReplies(r) # {}


(* ------------------------------- C17 --------------------------------- *)
\* C17: the shared model is read-only once loaded: model_loaded implies
\* model is set, and from a state with model_loaded no step, of any request
\* in any interleaving, assigns model or model_loaded (an assignment of
\* model is a construction that returned, counted by built); the two are
\* assigned only together, by a load_model call that found nothing loaded.
ModelReadOnly ==
  /\ [](model_loaded => model = "WhisperModel")
  /\ [][model_loaded =>
          /\ model_loaded'
          /\ model' = model
          /\ built' = built]_vars
  /\ [][(model' # model \/ model_loaded' # model_loaded \/ built' # built) =>
          /\ ~model_loaded /\ model = "None"
          /\ model_loaded' /\ model' = "WhisperModel"
          /\ \E r \in Req :
               CallsLoadModel(r) /\ constructCalls'[r] = constructCalls[r] + 1]_vars

\* While the transcription of one request reads the model on a worker,
\* another request has gone through load_model without constructing.
ModelReadOnlyWitness ==
  \E r1, r2 \in Req :
    /\ r1 # r2
    /\ r1 \in running
    /\ task[r1] = "transcribe"
    /\ pc[r2] = "get_file"
    /\ constructCalls[r2] = 0
    /\ model_loaded
    /\ built = 1

(* ------------------------------- C18 --------------------------------- *)
\* The request r has started operation op.
Did(r, op) == \E i \in DOMAIN hist[r] : hist[r][i] = op

\* The operations of a request that follow its load_model call.
AfterLoad ==
  {"get_file", "download_to_drive", "write_audiofile", "from_file", "export",
   "transcribe", "join", "translate", "gTTS.save", "os.system",
   "reply_audio", "reply_video"}

\* C18: in any interleaving, the transcription is submitted and executed
\* only with the model set; a request goes on past load_model only by its
\* own load_model call returning normally, which leaves model_loaded True;
\* a request whose load_model raised does no download, normalization or
\* transcription and hands nothing to the worker pool.
TranscribeNeedsModel ==
  /\ [](\A r \in Req :
          /\ (\E op \in AfterLoad : Did(r, op)) =>
               /\ Did(r, "load_model")
               /\ failed[r] # "model"
               /\ model_loaded
               /\ model = "WhisperModel"
          /\ failed[r] = "model" =>
               /\ \A op \in AfterLoad : ~Did(r, op)
               /\ task[r] = "none"
               /\ future[r] = "none"
               /\ ~InPool(r))
  /\ [][\A r \in Req :
          /\ (task'[r] = "transcribe" /\ task[r] # "transcribe") =>
               (model_loaded /\ model = "WhisperModel")
          /\ (pc[r] = "ack" /\ pc'[r] = "get_file") =>
               (CallsLoadModel(r) /\ model_loaded' /\ model' = "WhisperModel")
          /\ (CallsLoadModel(r) /\ constructCalls'[r] > constructCalls[r]
                /\ built' = built) =>
               (failed'[r] = "model" /\ pc'[r] = "error_reply")]_vars
  /\ [][(queue # <<>> /\ running' # running /\ queue' = Tail(queue)
           /\ task[Head(queue)] = "transcribe") =>
          model = "WhisperModel"]_vars

\* A request whose load_model raised has ended having done nothing more,
\* while the transcription of another request executes with the model set.
TranscribeNeedsModelWitness ==
  \E r1, r2 \in Req :
    /\ r1 # r2
    /\ failed[r1] = "model"
    /\ pc[r1] = "done"
    /\ hist[r1] = <<"reply_text", "load_model">>
    /\ Calls(r1, "delete") # {}
    /\ r2 \in running
    /\ task[r2] = "transcribe"
    /\ model = "WhisperModel"

====
